---- MODULE Spec2Model ----
(***************************************************************************)
(* A model of the chunking and retrieval core of Chatbot-News-RAG.         *)
(*                                                                         *)
(*   news_crawler/prepare_data_rag.py   split_long_paragraph, chunk_text   *)
(*   src/rag_news/reranker.py           rerank                             *)
(*   src/rag_news/retriever.py          retrieve_news                      *)
(*   src/rag_news/query.py              main (the query CLI)               *)
(*                                                                         *)
(* A Python str is a sequence of one-character strings.  The embedding     *)
(* model, the vector index and the cross-encoder are external: the index   *)
(* reports an arbitrary bounded list of hits and the cross-encoder is an   *)
(* arbitrary function of the candidate text (the query is fixed during a   *)
(* call).                                                                  *)
(***************************************************************************)
EXTENDS Integers, Sequences, FiniteSets, TLC

VARIABLES
    \* ---- chunker (prepare_data_rag.py)
    text,           \* chunk_text argument `text`
    max_chars,      \* chunk_text argument `max_chars`
    overlap,        \* chunk_text argument `overlap`
    passages,       \* the list chunk_text returned
    cpc,            \* "input" before the call, "done" after
    \* ---- reranker / retriever (reranker.py, retriever.py, query.py)
    rpc,            \* position of the running call
    caller,         \* "retrieve_news", "query_main", "rerank" or "none"
    top_k,          \* argument top_k
    use_reranker,   \* TRUE iff `reranker is not None`
    rerank_top_k,   \* argument rerank_top_k (None or an int)
    initial_candidates, \* argument initial_candidates (None or an int)
    limit,          \* the `limit` handed to client.query_points (None: not queried)
    hits,           \* result.points as reported by the index
    contexts,       \* the local list `contexts` / argument `candidates`
    ce,             \* the cross-encoder's score for each text, once it was invoked
    ce_calls,       \* number of reranker.predict invocations
    result,         \* the returned list
    error,          \* the external call that raised: "none", "embed", "search", "rerank"
    encoded,        \* the encode calls made so far: {[site, prefix]}
    \* ---- ingestion (ingest.py, qdrant.py, embeddings.py)
    \* ---- two retrieve_news calls running concurrently
    calls,          \* per call, its arguments and locals, a record:
                    \*   pc, question, top_k, use_reranker,
                    \*   hits    the points the index returned
                    \*   scores  what reranker.predict returned
                    \*   k       turns of the scoring loop done
                    \*   result  what the call returned
    heap,           \* the lists of context dicts the calls have built, by slot
    prep,           \* the state of one run of prepare_data_rag.py main, a record:
                    \*   pc        "vi", "en": process_language runs for it
                    \*   articles  the loaded articles: [content, content_en]
                    \*   i         per language, the articles gone through
                    \*   out       per language, the records written, in order
                    \*   skipped   per language, the counter `skipped`
    ing             \* the state of one run of ingest.py main, a record:
                    \*   pc           position of the run
                    \*   records      the (id, text) records of the chunk file
                    \*   batch_size   args.batch_size
                    \*   include_text args.include_text
                    \*   vector_size  args.vector_size
                    \*   coll0, coll  the collection's vector dimension before the
                    \*                run and now (None: it does not exist)
                    \*   index0, index the collection's points before the run and now
                    \*   pos          records consumed by the completed batches
                    \*   embedded     ids whose batch embed_passages has encoded
                    \*   upserted     ids handed to a client.upsert that succeeded
                    \*   returned     what ingest_chunk_file returned (None: nothing)
                    \*   error        the call that raised: "none", "embed", "upsert"
                    \*   run          1, or 2 when the same file is ingested again
                    \*   first        the index and the count run 1 ended with

chunk_vars == <<text, max_chars, overlap, passages, cpc>>
retr_vars  == <<rpc, caller, top_k, use_reranker, rerank_top_k, initial_candidates,
                limit, hits, contexts, ce, ce_calls, result>>
ext_vars   == <<error, encoded>>
conc_vars == <<calls, heap>>
other_vars == <<prep, ing, conc_vars>>
vars == <<chunk_vars, retr_vars, ext_vars, other_vars>>

\* a Python value that may be None (or a dict key that may be absent):
\* None is the empty tuple, a present value v is <<v>>
None == <<>>
Some(v) == <<v>>
Val(o) == o[1]

Min(a, b) == IF a < b THEN a ELSE b
Max(a, b) == IF a > b THEN a ELSE b
SetMin(S) == CHOOSE x \in S : \A y \in S : x <= y
SetMax(S) == CHOOSE x \in S : \A y \in S : x >= y

(***************************************************************************)
(* Bounds of the model                                                     *)
(***************************************************************************)
MaxLen     == 6     \* longest input text
MaxChars   == 4     \* largest max_chars
MaxOverlap == 3     \* largest overlap
MaxHits    == 3     \* most hits the index reports
MaxRerankCalls == 2  \* most rerank calls on the same candidate dicts

\* the characters input texts are made of: a letter, a sentence terminator,
\* a blank and a newline
Alphabet == {"a", ".", " ", "\n"}

RECURSIVE SeqsUpTo(_, _)
SeqsUpTo(S, n) ==
    IF n = 0 THEN {<<>>}
    ELSE LET shorter == SeqsUpTo(S, n - 1)
         IN  shorter \cup {Append(s, x) : s \in {t \in shorter : Len(t) = n - 1}, x \in S}

(***************************************************************************)
(* Python string primitives                                                *)
(***************************************************************************)
\* str.isspace / regex \s on the characters of the model
IsSpace(c) == c \in {" ", "\n"}

\* a slice that stops one character early
Slice_StopsEarly(s, i, j) == SubSeq(s, i + 1, Min(j, Len(s)) - 1)

\* s[i:j] with 0 <= i <= j (Python slice, 0-based, clamped to the string)
Slice(s, i, j) == SubSeq(s, i + 1, Min(j, Len(s)))

\* str.strip()
Strip(s) ==
    LET keep == {i \in 1..Len(s) : ~IsSpace(s[i])}
    IN  IF keep = {} THEN <<>> ELSE SubSeq(s, SetMin(keep), SetMax(keep))

\* s[-n:] for n > 0
Tail_n(s, n) == IF n >= Len(s) THEN s ELSE SubSeq(s, Len(s) - n + 1, Len(s))

\* re.split(r'\n\s*\n', s): a match starts at the leftmost newline that is
\* followed, through whitespace only, by another newline, and (greedy \s*)
\* ends at the last newline of that whitespace run
BlankEnds(s, i) ==
    {j \in (i + 1)..Len(s) : s[j] = "\n" /\ \A k \in (i + 1)..(j - 1) : IsSpace(s[k])}
BlankStarts(s) == {i \in 1..Len(s) : s[i] = "\n" /\ BlankEnds(s, i) # {}}

RECURSIVE SplitBlankLines(_)
SplitBlankLines(s) ==
    IF BlankStarts(s) = {} THEN <<s>>
    ELSE LET i == SetMin(BlankStarts(s))
             j == SetMax(BlankEnds(s, i))
         IN  <<SubSeq(s, 1, i - 1)>> \o SplitBlankLines(SubSeq(s, j + 1, Len(s)))

\* re.split(r'(?<=[\.!?])\s+', s): a match is a maximal whitespace run that
\* directly follows a sentence terminator
Terminators == {".", "!", "?"}
SentStarts(s) == {i \in 2..Len(s) : IsSpace(s[i]) /\ s[i - 1] \in Terminators}
RunEnd(s, i) == SetMax({j \in i..Len(s) : \A k \in i..j : IsSpace(s[k])})

RECURSIVE SplitSentences(_)
SplitSentences(s) ==
    IF SentStarts(s) = {} THEN <<s>>
    ELSE LET i == SetMin(SentStarts(s))
             j == RunEnd(s, i)
         IN  <<SubSeq(s, 1, i - 1)>> \o SplitSentences(SubSeq(s, j + 1, Len(s)))

(***************************************************************************)
(* split_long_paragraph                                                    *)
(***************************************************************************)
\* for i in range(0, len(sent), max_chars): chunks.append(sent[i:i+max_chars].strip())
RECURSIVE HardSplit(_, _, _)
HardSplit(sent, i, mc) ==
    IF i >= Len(sent) THEN <<>>
    ELSE <<Strip(Slice(sent, i, i + mc))>> \o HardSplit(sent, i + mc, mc)

\* a paragraph cut at fixed offsets, whatever its sentences are
split_long_paragraph_HardOnly(para, mc) == HardSplit(Strip(para), 0, mc)

\* the body of `for sent in sentences`, from sentence number k on, and the
\* final flush of `current`
RECURSIVE SentenceLoop(_, _, _, _, _)
SentenceLoop(sentences, k, chunks, current, mc) ==
    IF k > Len(sentences)
    THEN IF current # <<>> THEN Append(chunks, Strip(current)) ELSE chunks
    ELSE LET sent == Strip(sentences[k])
         IN  IF sent = <<>>
             THEN SentenceLoop(sentences, k + 1, chunks, current, mc)
             ELSE IF Len(current) + Len(sent) + 1 < mc
             THEN SentenceLoop(sentences, k + 1, chunks,
                               IF current # <<>> THEN current \o <<" ">> \o sent ELSE sent,
                               mc)
             ELSE LET flushed == IF current # <<>>
                                 THEN Append(chunks, Strip(current)) ELSE chunks
                  IN  IF Len(sent) > mc
                      THEN SentenceLoop(sentences, k + 1,
                                        flushed \o HardSplit(sent, 0, mc), <<>>, mc)
                      ELSE SentenceLoop(sentences, k + 1, flushed, sent, mc)

split_long_paragraph(para, mc) ==
    LET p == Strip(para)
    IN  IF p = <<>> THEN <<>>
        ELSE SentenceLoop(SplitSentences(p), 1, <<>>, <<>>, mc)

(***************************************************************************)
(* chunk_text                                                              *)
(***************************************************************************)
\* paragraphs = [p.strip() for p in raw_paragraphs if p.strip()]
RECURSIVE StripNonEmpty(_)
StripNonEmpty(ps) ==
    IF ps = <<>> THEN <<>>
    ELSE LET p == Strip(Head(ps))
         IN  (IF p # <<>> THEN <<p>> ELSE <<>>) \o StripNonEmpty(Tail(ps))

Paragraphs(t) == StripNonEmpty(SplitBlankLines(Strip(t)))

\* subs = split_long_paragraph(para, max_chars) if len(para) > max_chars else [para]
Subs(para, mc) == IF Len(para) > mc THEN split_long_paragraph(para, mc) ELSE <<para>>

\* the units `sp` in the order the two nested loops visit them
RECURSIVE Units(_, _)
Units(paras, mc) ==
    IF paras = <<>> THEN <<>> ELSE Subs(Head(paras), mc) \o Units(Tail(paras), mc)

NLNL == <<"\n", "\n">>

\* the whole closed buffer carried over instead of its last `ov` characters
NewBuffer_WholeBuffer(current, sp, ov) ==
    IF ov > 0 /\ Len(current) > ov
    THEN current \o NLNL \o sp \o NLNL
    ELSE sp \o NLNL

\* the buffer a closed passage leaves behind (lines 53-57)
NewBuffer(current, sp, ov) ==
    IF ov > 0 /\ Len(current) > ov
    THEN Tail_n(current, ov) \o NLNL \o sp \o NLNL
    ELSE sp \o NLNL

\* the body of `for sp in subs`, from unit number k on, and the final flush
RECURSIVE UnitLoop(_, _, _, _, _, _)
UnitLoop(units, k, chunks, current, mc, ov) ==
    IF k > Len(units)
    THEN IF current # <<>> THEN Append(chunks, Strip(current)) ELSE chunks
    ELSE LET sp == units[k]
         IN  IF Len(current) + Len(sp) + 2 < mc
             THEN UnitLoop(units, k + 1, chunks, current \o sp \o NLNL, mc, ov)
             ELSE UnitLoop(units, k + 1,
                           IF current # <<>> THEN Append(chunks, Strip(current)) ELSE chunks,
                           NewBuffer(current, sp, ov), mc, ov)

chunk_text(t, mc, ov) ==
    IF t = <<>> THEN <<>>
    ELSE UnitLoop(Units(Paragraphs(t), mc), 1, <<>>, <<>>, mc, ov)

(***************************************************************************)
(* The chunker as a state machine: the arguments are drawn in Init, the    *)
(* one action applies chunk_text to them.                                  *)
(***************************************************************************)
RetrIdle ==
    /\ rpc = "idle" /\ caller = "none"
    /\ top_k = 0 /\ use_reranker = FALSE
    /\ rerank_top_k = None /\ initial_candidates = None
    /\ limit = None /\ hits = <<>> /\ contexts = <<>>
    /\ ce = None /\ ce_calls = 0 /\ result = <<>>
    /\ error = "none" /\ encoded = {}

IngIdle == ing = [pc |-> "idle"]

PrepIdle == prep = [pc |-> "idle"]

ConcIdle == calls = <<>> /\ heap = <<>>

OtherIdle == IngIdle /\ PrepIdle /\ ConcIdle

ChunkIdle ==
    /\ text = <<>> /\ max_chars = 1 /\ overlap = 0
    /\ passages = <<>> /\ cpc = "idle"

InitChunk ==
    /\ text \in SeqsUpTo(Alphabet, MaxLen)
    /\ max_chars \in 1..MaxChars
    /\ overlap \in 0..MaxOverlap
    /\ passages = <<>>
    /\ cpc = "input"
    /\ RetrIdle
    /\ OtherIdle

ChunkText ==
    /\ cpc = "input"
    /\ passages' = chunk_text(text, max_chars, overlap)
    /\ cpc' = "done"
    /\ UNCHANGED <<text, max_chars, overlap, retr_vars, ext_vars, other_vars>>

NextChunk == ChunkText

SpecChunk == InitChunk /\ [][NextChunk]_vars

(***************************************************************************)
(* Claims about the chunker                                                *)
(***************************************************************************)
NonWs(s) == SelectSeq(s, LAMBDA c : ~IsSpace(c))

RECURSIVE Flatten(_)
Flatten(ss) == IF ss = <<>> THEN <<>> ELSE Head(ss) \o Flatten(Tail(ss))

\* C1: for every text, max_chars >= 1 and overlap >= 0, every passage
\* chunk_text returns has length <= max_chars.
C1_PassagesWithinMaxChars ==
    cpc = "done" => \A i \in 1..Len(passages) : Len(passages[i]) <= max_chars

\* C2: for overlap > 0 and at least two passages, every passage i+1 whose
\* predecessor i is longer than overlap begins with exactly the last
\* overlap characters of passage i.
C2_OverlapPrefix ==
    (cpc = "done" /\ overlap > 0 /\ Len(passages) >= 2) =>
        \A i \in 1..(Len(passages) - 1) :
            Len(passages[i]) > overlap =>
                /\ Len(passages[i + 1]) >= overlap
                /\ SubSeq(passages[i + 1], 1, overlap) = Tail_n(passages[i], overlap)

\* C3: with overlap = 0, the passages concatenated in order and stripped of
\* whitespace are exactly the non-whitespace characters of the input, in
\* input order.
C3_NonWhitespacePreserved ==
    (cpc = "done" /\ overlap = 0) => NonWs(Flatten(passages)) = NonWs(text)

\* C3 witness: a text with whitespace, split into several passages, one of
\* its paragraphs longer than max_chars (so split_long_paragraph ran).
C3_Witness ==
    /\ cpc = "done" /\ overlap = 0
    /\ Len(passages) >= 3
    /\ NonWs(text) # text
    /\ \E k \in 1..Len(Paragraphs(text)) : Len(Paragraphs(text)[k]) > max_chars
    /\ Len(Paragraphs(text)) >= 2

(***************************************************************************)
(* Reranker (reranker.py)                                                  *)
(*                                                                         *)
(* A context is the dict built from a hit: the keys score and text, the    *)
(* keys vector_score and rerank_score (None while the key is absent) and   *)
(* `hit`, the identity of the dict (the position of its hit in the index   *)
(* result).  The keys lang, article_id, title and url are copied from the  *)
(* payload and never touched afterwards; they are left out.                *)
(***************************************************************************)
VectorScores == {1, 2}          \* similarities the index reports
RerankScores == {10, 20}        \* values the cross-encoder returns
PayloadTexts == {"p", "q"}      \* passage texts stored in payloads
CeTexts      == PayloadTexts \cup {""}

\* candidates[:k] for an int k (a negative k counts from the end)
PyPrefix(s, k) ==
    IF k >= 0 THEN SubSeq(s, 1, Min(k, Len(s)))
    ELSE SubSeq(s, 1, Max(Len(s) + k, 0))

\* the score overwritten before it is copied to vector_score
ScoreContext_OverwriteFirst(ctx, f) ==
    [ctx EXCEPT !.rerank_score = Some(f[ctx.text]),
                !.vector_score = Some(f[ctx.text]),
                !.score        = f[ctx.text]]

\* lines 64-69: the scores written into every candidate dict
ScoreContext(ctx, f) ==
    [ctx EXCEPT !.rerank_score = Some(f[ctx.text]),
                !.vector_score = Some(ctx.score),
                !.score        = f[ctx.text]]

\* the canonical score left at the first-stage value
ScoreAll_KeepScore(cands, f) ==
    [i \in 1..Len(cands) |->
        [cands[i] EXCEPT !.rerank_score = Some(f[cands[i].text]),
                         !.vector_score = Some(cands[i].score)]]

ScoreAll(cands, f) == [i \in 1..Len(cands) |-> ScoreContext(cands[i], f)]

\* a descending sort that puts c before the elements equal to it (what
\* reversing an ascending stable sort does)
InsertDesc_Unstable(sorted, c) ==
    LET before == {i \in 1..Len(sorted) :
                       Val(sorted[i].rerank_score) > Val(c.rerank_score)}
        n      == IF before = {} THEN 0 ELSE SetMax(before)
    IN  SubSeq(sorted, 1, n) \o <<c>> \o SubSeq(sorted, n + 1, Len(sorted))

\* sorted(candidates, key=rerank_score, reverse=True): Python's sort is
\* stable, also under reverse=True; c goes behind every element whose key
\* is greater than or equal to its own
InsertDesc(sorted, c) ==
    LET before == {i \in 1..Len(sorted) :
                       Val(sorted[i].rerank_score) >= Val(c.rerank_score)}
        n      == IF before = {} THEN 0 ELSE SetMax(before)
    IN  SubSeq(sorted, 1, n) \o <<c>> \o SubSeq(sorted, n + 1, Len(sorted))

RECURSIVE SortFrom(_, _, _)
SortFrom(cands, k, acc) ==
    IF k > Len(cands) THEN acc ELSE SortFrom(cands, k + 1, InsertDesc(acc, cands[k]))

SortedByRerankScore(cands) == SortFrom(cands, 1, <<>>)

\* truncating to top_k before sorting instead of after
rerank_TruncateFirst(cands, k, f) ==
    IF cands = <<>> THEN <<>>
    ELSE LET scored == ScoreAll(cands, f)
         IN  SortedByRerankScore(IF k # None THEN PyPrefix(scored, Val(k)) ELSE scored)

\* rerank(reranker, query, candidates, top_k) with the cross-encoder f
rerank(cands, k, f) ==
    IF cands = <<>> THEN <<>>
    ELSE LET reranked == SortedByRerankScore(ScoreAll(cands, f))
         IN  IF k # None THEN PyPrefix(reranked, Val(k)) ELSE reranked

\* the caller's candidate dicts after the call: scored in place, order kept
MutatedCandidates(cands, f) == IF cands = <<>> THEN <<>> ELSE ScoreAll(cands, f)

(***************************************************************************)
(* Retriever (retriever.py) and query CLI (query.py)                       *)
(***************************************************************************)
Hits == [score : VectorScores, text : {None} \cup {Some(t) : t \in PayloadTexts}]
HitSeqs == SeqsUpTo(Hits, MaxHits)

\* the widening as the docstring words it: top_k * 3
FetchK_TimesThree(rr, k, ic) ==
    IF rr THEN (IF ic # None THEN Val(ic) ELSE k * 3) ELSE k

\* the widening applied whether or not there is a reranker
FetchK_AlwaysWiden(rr, k, ic) ==
    IF ic # None THEN Val(ic) ELSE Max(k * 3, 20)

\* retriever.py lines 87-93 (query.py lines 72-75 compute fetch_k alike)
FetchK(rr, k, ic) ==
    IF rr THEN (IF ic # None THEN Val(ic) ELSE Max(k * 3, 20)) ELSE k

RerankK(rr, k, rtk, ic) ==
    IF rr THEN (IF rtk # None THEN Val(rtk) ELSE FetchK(rr, k, ic)) ELSE k

\* a context that also files the first-stage value under vector_score
BuildContext_WithVectorScore(h, i) ==
    [score        |-> h.score,
     text         |-> IF h.text = None THEN "" ELSE Val(h.text),
     vector_score |-> Some(h.score),
     rerank_score |-> None,
     hit          |-> i]

\* lines 113-124: one context per hit; payload.get("text", "")
BuildContext(h, i) ==
    [score        |-> h.score,
     text         |-> IF h.text = None THEN "" ELSE Val(h.text),
     vector_score |-> None,
     rerank_score |-> None,
     hit          |-> i]

BuildContexts(hs) == [i \in 1..Len(hs) |-> BuildContext(hs[i], i)]

\* the final trim to top_k left out on the reranked branch
RetrieveResult_NoTrim(hs, rr, k, rtk, ic, f) ==
    IF hs = <<>> THEN <<>>
    ELSE IF rr
         THEN rerank(BuildContexts(hs), Some(RerankK(rr, k, rtk, ic)), f)
         ELSE PyPrefix(BuildContexts(hs), k)

\* retriever.py lines 107-140, given the hits and the cross-encoder
RetrieveResult(hs, rr, k, rtk, ic, f) ==
    IF hs = <<>> THEN <<>>
    ELSE IF rr
         THEN PyPrefix(rerank(BuildContexts(hs), Some(RerankK(rr, k, rtk, ic)), f), k)
         ELSE PyPrefix(BuildContexts(hs), k)

\* query.py lines 90-121
QueryMainResult(hs, rr, k, f) ==
    IF hs = <<>> THEN <<>>
    ELSE IF rr THEN rerank(BuildContexts(hs), Some(k), f)
         ELSE PyPrefix(BuildContexts(hs), k)

\* the arguments callers pass: top_k = 5 is the default, 7 is the least top_k
\* with top_k * 3 > 20
TopKs       == {0, 1, 2, 5, 7}
RerankTopKs == {None} \cup {Some(k) : k \in {-1, 1}}
InitialCandidates == {None} \cup {Some(k) : k \in {2, 8}}

InitRetrieve ==
    /\ rpc = "idle" /\ caller = "none"
    /\ top_k = 0 /\ use_reranker = FALSE
    /\ rerank_top_k = None /\ initial_candidates = None
    /\ limit = None /\ hits = <<>> /\ contexts = <<>>
    /\ ce = None /\ ce_calls = 0 /\ result = <<>>
    /\ error = "none" /\ encoded = {}
    /\ ChunkIdle
    /\ OtherIdle

\* a caller enters retrieve_news
RetrieveNewsCall ==
    /\ rpc = "idle"
    /\ \E k \in TopKs, rr \in BOOLEAN, rtk \in RerankTopKs, ic \in InitialCandidates :
        /\ top_k' = k
        /\ use_reranker' = rr
        /\ rerank_top_k' = rtk
        /\ initial_candidates' = ic
    /\ caller' = "retrieve_news"
    /\ rpc' = "embed"
    /\ UNCHANGED <<limit, hits, contexts, ce, ce_calls, result, chunk_vars, ext_vars, other_vars>>

\* the query CLI starts (it has no rerank_top_k)
QueryMainCall ==
    /\ rpc = "idle"
    /\ \E k \in TopKs, rr \in BOOLEAN, ic \in InitialCandidates :
        /\ top_k' = k
        /\ use_reranker' = rr
        /\ initial_candidates' = ic
    /\ rerank_top_k' = None
    /\ caller' = "query_main"
    /\ rpc' = "embed"
    /\ UNCHANGED <<limit, hits, contexts, ce, ce_calls, result, chunk_vars, ext_vars, other_vars>>

\* embeddings.py lines 17 and 29: the prefix each role puts before a text
PassagePrefix == "passage: "
QueryPrefix   == "query: "

\* a query site that encodes in the passage role
QueryEncode_PassageRole(site) == [site |-> site, prefix |-> PassagePrefix]

\* the encode call a site makes: embed_queries by retrieve_news (line 96)
\* and by the query CLI (line 78)
QueryEncode(site) == [site |-> site, prefix |-> QueryPrefix]

\* embed_queries(model, [question])[0]
EmbedQuery ==
    /\ rpc = "embed"
    /\ encoded' = encoded \cup {QueryEncode(caller)}
    /\ rpc' = "search"
    /\ UNCHANGED <<caller, top_k, use_reranker, rerank_top_k, initial_candidates,
                   limit, hits, contexts, ce, ce_calls, result, error, chunk_vars,
                   other_vars>>

\* embed_queries raises: nothing in retrieve_news or main catches it
EmbedQueryFails ==
    /\ rpc = "embed"
    /\ encoded' = encoded \cup {QueryEncode(caller)}
    /\ error' = "embed"
    /\ rpc' = "raised"
    /\ UNCHANGED <<caller, top_k, use_reranker, rerank_top_k, initial_candidates,
                   limit, hits, contexts, ce, ce_calls, result, chunk_vars, other_vars>>

\* client.query_points(..., limit=fetch_k): the index reports some hits
QueryPoints ==
    /\ rpc = "search"
    /\ limit' = Some(FetchK(use_reranker, top_k, initial_candidates))
    /\ hits' \in HitSeqs
    /\ rpc' = "hits"
    /\ UNCHANGED <<caller, top_k, use_reranker, rerank_top_k, initial_candidates,
                   contexts, ce, ce_calls, result, chunk_vars, ext_vars, other_vars>>

\* client.query_points raises: nothing in retrieve_news or main catches it
QueryPointsFails ==
    /\ rpc = "search"
    /\ limit' = Some(FetchK(use_reranker, top_k, initial_candidates))
    /\ error' = "search"
    /\ rpc' = "raised"
    /\ UNCHANGED <<caller, top_k, use_reranker, rerank_top_k, initial_candidates,
                   hits, contexts, ce, ce_calls, result, encoded, chunk_vars, other_vars>>

\* the early return on no hits left out
CrossEncoderInvoked_OnNoHits(rr, hs) == rr

\* retriever.py lines 109-110 and 127 (query.py lines 92-94 and 111): the
\* reranker is reached with a reranker and at least one hit
CrossEncoderInvoked(rr, hs) == rr /\ hs # <<>>

\* rerank without its guard on an empty list
RerankInvokesPredict_Always(cands) == TRUE

\* reranker.py lines 50-51: rerank returns before predict on an empty list
RerankInvokesPredict(cands) == cands # <<>>

\* what the cross-encoder is asked and answers while a call finishes
Predict(invoked, f) ==
    IF invoked
    THEN ce' = f /\ ce_calls' = ce_calls + 1
    ELSE UNCHANGED <<ce, ce_calls>>

\* retrieve_news from `hits = result.points or []` to its return
RetrieveNewsReturn ==
    /\ rpc = "hits" /\ caller = "retrieve_news"
    /\ \E f \in [CeTexts -> RerankScores] :
        /\ Predict(CrossEncoderInvoked(use_reranker, hits), f)
        /\ contexts' = (IF use_reranker THEN MutatedCandidates(BuildContexts(hits), f)
                        ELSE BuildContexts(hits))
        /\ result' = RetrieveResult(hits, use_reranker, top_k, rerank_top_k,
                                    initial_candidates, f)
    /\ rpc' = "done"
    /\ UNCHANGED <<caller, top_k, use_reranker, rerank_top_k, initial_candidates,
                   limit, hits, chunk_vars, ext_vars, other_vars>>

\* the query CLI from `hits = result.points` to the printed list
QueryMainReturn ==
    /\ rpc = "hits" /\ caller = "query_main"
    /\ \E f \in [CeTexts -> RerankScores] :
        /\ Predict(CrossEncoderInvoked(use_reranker, hits), f)
        /\ contexts' = (IF use_reranker THEN MutatedCandidates(BuildContexts(hits), f)
                        ELSE BuildContexts(hits))
        /\ result' = QueryMainResult(hits, use_reranker, top_k, f)
    /\ rpc' = "done"
    /\ UNCHANGED <<caller, top_k, use_reranker, rerank_top_k, initial_candidates,
                   limit, hits, chunk_vars, ext_vars, other_vars>>

\* rerank called on its own, on candidates built from a first-stage search;
\* its argument top_k (None or an int) is kept in rerank_top_k
RerankCall ==
    /\ rpc = "idle"
    /\ \E hs \in HitSeqs : hits' = hs /\ contexts' = BuildContexts(hs)
    /\ \E k \in {None} \cup {Some(n) : n \in 0..(MaxHits + 1)} :
        /\ top_k' = (IF k = None THEN 0 ELSE Val(k))
        /\ rerank_top_k' = k
    /\ caller' = "rerank"
    /\ use_reranker' = TRUE
    /\ rpc' = "rerank"
    /\ UNCHANGED <<initial_candidates, limit, ce, ce_calls, result, chunk_vars, ext_vars, other_vars>>

RerankReturn ==
    /\ rpc = "rerank" /\ caller = "rerank"
    /\ \E f \in [CeTexts -> RerankScores] :
        /\ Predict(RerankInvokesPredict(contexts), f)
        /\ result' = rerank(contexts, rerank_top_k, f)
        /\ contexts' = MutatedCandidates(contexts, f)
    /\ rpc' = "done"
    /\ UNCHANGED <<caller, top_k, use_reranker, rerank_top_k, initial_candidates,
                   limit, hits, chunk_vars, ext_vars, other_vars>>

\* a failure of reranker.predict swallowed: the first-stage list is returned
PredictFails_Fallback ==
    /\ rpc = "hits" /\ caller = "retrieve_news"
    /\ CrossEncoderInvoked(use_reranker, hits)
    /\ contexts' = BuildContexts(hits)
    /\ result' = PyPrefix(BuildContexts(hits), top_k)
    /\ ce_calls' = ce_calls + 1
    /\ error' = "rerank"
    /\ rpc' = "done"
    /\ UNCHANGED <<caller, top_k, use_reranker, rerank_top_k, initial_candidates,
                   limit, hits, ce, encoded, chunk_vars, other_vars>>

\* reranker.predict raises (reranker.py lines 57-61): neither rerank nor
\* retrieve_news nor main catches it, nothing is returned
PredictFails ==
    /\ \/ /\ rpc = "hits" /\ caller \in {"retrieve_news", "query_main"}
          /\ CrossEncoderInvoked(use_reranker, hits)
          /\ contexts' = BuildContexts(hits)
       \/ /\ rpc = "rerank" /\ caller = "rerank"
          /\ RerankInvokesPredict(contexts)
          /\ UNCHANGED contexts
    /\ ce_calls' = ce_calls + 1
    /\ error' = "rerank"
    /\ rpc' = "raised"
    /\ UNCHANGED <<caller, top_k, use_reranker, rerank_top_k, initial_candidates,
                   limit, hits, ce, result, encoded, chunk_vars, other_vars>>

NextRetrieve ==
    \/ RetrieveNewsCall
    \/ QueryMainCall
    \/ EmbedQuery
    \/ EmbedQueryFails
    \/ QueryPoints
    \/ QueryPointsFails
    \/ PredictFails
    \/ RetrieveNewsReturn
    \/ QueryMainReturn
    \/ RerankCall
    \/ RerankReturn

SpecRetrieve == InitRetrieve /\ [][NextRetrieve]_vars

(***************************************************************************)
(* Claims about the retriever and the reranker                             *)
(***************************************************************************)
\* every value a context can take
Range_Contexts ==
    [score : VectorScores \cup RerankScores, text : CeTexts,
     vector_score : {None} \cup {Some(v) : v \in VectorScores},
     rerank_score : {None} \cup {Some(v) : v \in RerankScores},
     hit : 1..MaxHits]

Reranked == rpc = "done" /\ ce_calls = 1
ReturnedHits == {result[i].hit : i \in 1..Len(result)}

\* C4: for every top_k >= 0, with or without a reranker, for any
\* initial_candidates, rerank_top_k and number of hits, retrieve_news returns
\* a sequence of at most top_k candidates.
C4_AtMostTopK ==
    (rpc = "done" /\ caller = "retrieve_news") =>
        /\ result \in Seq(Range_Contexts)
        /\ Len(result) <= top_k

\* C4 witness: a reranked call whose index reported more hits than top_k and
\* whose rerank_k alone would have let all of them through.
C4_Witness ==
    /\ rpc = "done" /\ caller = "retrieve_news" /\ use_reranker
    /\ rerank_top_k = None
    /\ Len(hits) > top_k /\ top_k > 0
    /\ Len(result) = top_k

C7_RerankTopK ==
    (rpc = "done" /\ caller = "rerank" /\ hits # <<>>) =>
        /\ Len(result) = (IF rerank_top_k = None THEN Len(hits)
                          ELSE Min(Val(rerank_top_k), Len(hits)))
        /\ \A i \in 1..Len(result) : \E j \in 1..Len(contexts) : result[i] = contexts[j]
        /\ \A i, j \in 1..Len(result) : i # j => result[i].hit # result[j].hit
        /\ \A i \in 1..(Len(result) - 1) :
               Val(result[i].rerank_score) >= Val(result[i + 1].rerank_score)
        /\ \A j \in 1..Len(contexts) :
               contexts[j].hit \notin ReturnedHits =>
                   \A i \in 1..Len(result) :
                       Val(contexts[j].rerank_score) <= Val(result[i].rerank_score)

\* C7 witness: three candidates, the best-scoring one last in the input,
\* truncated to two.
C7_Witness ==
    /\ rpc = "done" /\ caller = "rerank"
    /\ Len(hits) = 3 /\ rerank_top_k = Some(2) /\ Len(result) = 2
    /\ result[1].hit = 3
    /\ Val(result[1].rerank_score) > Val(result[2].rerank_score)

\* C8: after a single rerank call on candidates coming from first-stage
\* search, every returned candidate's vector_score is the first-stage score
\* that candidate carried before the call.
C8_VectorScoreKept ==
    Reranked =>
        \A i \in 1..Len(result) :
            /\ result[i].hit \in 1..Len(hits)
            /\ result[i].vector_score = Some(hits[result[i].hit].score)

\* C8 witness: retrieve_news reranked hits with different first-stage scores
\* and returned them in another order than the index reported.
C8_Witness ==
    /\ Reranked /\ caller = "retrieve_news"
    /\ Len(result) >= 2
    /\ result[1].hit > result[2].hit
    /\ result[1].vector_score # result[2].vector_score

\* C9: the rerank merge is a stable sort: two candidates with equal
\* rerank_score appear in the result in the same relative order as in the
\* input (first-stage) list.
C9_StableSort ==
    Reranked =>
        \A i, j \in 1..Len(result) :
            (i < j /\ result[i].rerank_score = result[j].rerank_score) =>
                result[i].hit < result[j].hit

\* C9 witness: the sort moved the last candidate to the front and left two
\* equal-scoring candidates with different texts behind it.
C9_Witness ==
    /\ Reranked
    /\ Len(result) = 3
    /\ result[1].hit = 3
    /\ result[2].rerank_score = result[3].rerank_score
    /\ result[2].text # result[3].text

\* C10: after rerank every scored candidate's score field equals its
\* rerank_score, the cross-encoder's score of the candidate's text; so it
\* does for every candidate retrieve_news returns with a reranker.
C10_ScoreIsRerankScore ==
    Reranked =>
        /\ \A j \in 1..Len(contexts) :
            /\ contexts[j].rerank_score = Some(ce[contexts[j].text])
            /\ Some(contexts[j].score) = contexts[j].rerank_score
        /\ \A i \in 1..Len(result) :
            /\ result[i].rerank_score = Some(ce[result[i].text])
            /\ Some(result[i].score) = result[i].rerank_score

\* C10 witness: retrieve_news with a reranker returned candidates whose
\* cross-encoder scores differ.
C10_Witness ==
    /\ Reranked /\ caller = "retrieve_news"
    /\ Len(result) >= 2
    /\ result[1].score # result[2].score
    /\ result[1].score = ce[result[1].text]

(***************************************************************************)
(* rerank called again on the list it returned (reranker.py).  The dicts   *)
(* of the list are the caller's candidate dicts, so the second call        *)
(* updates them in place; the query, and with it the cross-encoder's       *)
(* answer for each text, is the same.                                      *)
(***************************************************************************)
RerankAgain ==
    /\ rpc = "done" /\ caller = "rerank"
    /\ ce_calls >= 1 /\ ce_calls < MaxRerankCalls
    /\ result # <<>>
    /\ \E k \in {None, Some(1)} :
        /\ rerank_top_k' = k
        /\ result' = rerank(result, k, ce)
    /\ contexts' = [j \in 1..Len(contexts) |->
                       IF \E i \in 1..Len(result) : result[i].hit = contexts[j].hit
                       THEN ScoreContext(contexts[j], ce) ELSE contexts[j]]
    /\ ce_calls' = ce_calls + 1
    /\ UNCHANGED <<rpc, caller, top_k, use_reranker, initial_candidates, limit, hits,
                   ce, chunk_vars, ext_vars, other_vars>>

NextRerank ==
    \/ RerankCall
    \/ RerankReturn
    \/ RerankAgain

SpecRerank == InitRetrieve /\ [][NextRerank]_vars

\* C11: after any sequence of one or more rerank calls on the same candidate
\* records, each candidate's vector_score is the similarity the first-stage
\* index search reported and its rerank_score is a cross-encoder score.
C11_StageValuesKept ==
    (rpc = "done" /\ caller = "rerank" /\ ce_calls >= 1) =>
        \A i \in 1..Len(result) :
            /\ result[i].vector_score = Some(hits[result[i].hit].score)
            /\ result[i].rerank_score = Some(ce[result[i].text])

(***************************************************************************)
(* Ingestion (ingest.py main and ingest_chunk_file, qdrant.py)             *)
(*                                                                         *)
(* A point of the collection is [id, text]: id is the point id (uuid5 of   *)
(* the record id, a function of the record id alone) and text the payload  *)
(* key "text" (None: absent).  The encoder returns vectors of ModelDim     *)
(* components; the index rejects an upsert of vectors whose length is not  *)
(* the collection's dimension.                                             *)
(***************************************************************************)
MaxRecords == 3     \* most records in the chunk file
MaxBatch   == 2     \* largest batch size
ModelDim   == 1024  \* dimension of the encoder's vectors
Dims       == {768, ModelDim}
RecordIds  == [i \in 1..(MaxRecords + 1) |-> <<"vi-vnexpress", i>>]

\* the chunk files: record number i has the id number i, any text
ChunkFiles ==
    {[i \in 1..Len(ts) |-> [id |-> RecordIds[i], text |-> ts[i]]] :
        ts \in SeqsUpTo(PayloadTexts, MaxRecords)}

\* what the collection may hold before the run
OldIndexes == {{}, {[id |-> RecordIds[1], text |-> None]}}

\* qdrant.py lines 50-51 (build_payload): the payload key "text"
PayloadText(t, include_text) == IF include_text THEN Some(t) ELSE None

\* point ids drawn afresh at every upsert instead of derived from the
\* record id
Upsert_FreshIds(index, batch, include_text) ==
    index \cup {[id   |-> <<batch[k].id[1],
                            batch[k].id[2] + 10 * (1 + Cardinality(index))>>,
                 text |-> PayloadText(batch[k].text, include_text)] :
                    k \in 1..Len(batch)}

\* qdrant.py lines 68-86 (upsert_batch): one point per record, a point with
\* the id of an existing point replaces it
Upsert(index, batch, include_text) ==
    {pt \in index : \A k \in 1..Len(batch) : batch[k].id # pt.id}
        \cup {[id |-> batch[k].id, text |-> PayloadText(batch[k].text, include_text)] :
                 k \in 1..Len(batch)}

\* ingest.py lines 28-37 (batched): the batch that starts after `pos` records
BatchAt(records, pos, size) == SubSeq(records, pos + 1, Min(pos + size, Len(records)))

IdsOf(batch) == [k \in 1..Len(batch) |-> batch[k].id]

\* the encode call of ingestion: embed_passages (ingest.py line 67)
PassageEncode == [site |-> "ingest", prefix |-> PassagePrefix]

InitIngest ==
    /\ \E recs \in ChunkFiles, bs \in 1..MaxBatch, it \in BOOLEAN, vs \in Dims,
          c \in {None} \cup {Some(d) : d \in Dims}, old \in OldIndexes :
        /\ c = None => old = {}
        /\ ing = [pc |-> "setup", records |-> recs, batch_size |-> bs,
                  include_text |-> it, vector_size |-> vs,
                  coll0 |-> c, coll |-> c, index0 |-> old, index |-> old,
                  pos |-> 0, embedded |-> <<>>, upserted |-> <<>>,
                  returned |-> None, error |-> "none",
                  run |-> 1, first |-> None]
    /\ RetrIdle
    /\ ChunkIdle
    /\ PrepIdle
    /\ ConcIdle

\* qdrant.py lines 13-24: ensure_collection
EnsureCollection ==
    /\ ing.pc = "setup"
    /\ ing' = [ing EXCEPT !.pc = "file",
                          !.coll = IF ing.coll # None THEN ing.coll
                                   ELSE Some(ing.vector_size)]
    /\ UNCHANGED <<chunk_vars, retr_vars, ext_vars, prep, conc_vars>>

\* ingest.py lines 51-56: ingest_chunk_file reads the file
IngestChunkFile ==
    /\ ing.pc = "file"
    /\ ing' = IF ing.records = <<>>
              THEN [ing EXCEPT !.pc = "done", !.returned = Some(0)]
              ELSE [ing EXCEPT !.pc = "batch"]
    /\ UNCHANGED <<chunk_vars, retr_vars, ext_vars, prep, conc_vars>>

\* ingest.py lines 63-67: the next batch is encoded
EmbedBatch ==
    /\ ing.pc = "batch"
    /\ encoded' = encoded \cup {PassageEncode}
    /\ ing' = [ing EXCEPT !.pc = "upsert",
                          !.embedded = @ \o IdsOf(BatchAt(ing.records, ing.pos,
                                                          ing.batch_size))]
    /\ UNCHANGED <<chunk_vars, retr_vars, error, prep, conc_vars>>

\* a failed batch encoded text by text, the texts that succeeded upserted
EmbedBatchFails_PartialUpsert ==
    /\ ing.pc = "batch"
    /\ encoded' = encoded \cup {PassageEncode}
    /\ ing' = [ing EXCEPT !.pc = "raised", !.error = "embed",
                          !.index = Upsert(ing.index,
                                           SubSeq(ing.records, ing.pos + 1, ing.pos + 1),
                                           ing.include_text)]
    /\ UNCHANGED <<chunk_vars, retr_vars, error, prep, conc_vars>>

\* embed_passages raises (the encoder fails on the batch): nothing in
\* ingest_chunk_file or main catches it
EmbedBatchFails ==
    /\ ing.pc = "batch"
    /\ encoded' = encoded \cup {PassageEncode}
    /\ ing' = [ing EXCEPT !.pc = "raised", !.error = "embed"]
    /\ UNCHANGED <<chunk_vars, retr_vars, error, prep, conc_vars>>

\* ingest.py lines 69-82: the encoded batch is upserted; after the last batch
\* the record count is returned
UpsertBatch ==
    /\ ing.pc = "upsert"
    /\ LET batch == BatchAt(ing.records, ing.pos, ing.batch_size)
           pos2  == ing.pos + Len(batch)
       IN  ing' = IF Val(ing.coll) # ModelDim
                  THEN [ing EXCEPT !.pc = "raised", !.error = "upsert"]
                  ELSE [ing EXCEPT
                           !.index    = Upsert(ing.index, batch, ing.include_text),
                           !.upserted = @ \o IdsOf(batch),
                           !.pos      = pos2,
                           !.pc       = IF pos2 >= Len(ing.records) THEN "done"
                                        ELSE "batch",
                           !.returned = IF pos2 >= Len(ing.records)
                                        THEN Some(Len(ing.records)) ELSE None]
    /\ UNCHANGED <<chunk_vars, retr_vars, ext_vars, prep, conc_vars>>

\* a failed upsert logged and the batch skipped
UpsertBatchFails_SkipBatch ==
    /\ ing.pc = "upsert"
    /\ Val(ing.coll) = ModelDim
    /\ LET pos2 == ing.pos + Len(BatchAt(ing.records, ing.pos, ing.batch_size))
       IN  ing' = [ing EXCEPT !.error = "upsert",
                              !.pos = pos2,
                              !.pc = IF pos2 >= Len(ing.records) THEN "done" ELSE "batch",
                              !.returned = IF pos2 >= Len(ing.records)
                                           THEN Some(Len(ing.records)) ELSE None]
    /\ UNCHANGED <<chunk_vars, retr_vars, ext_vars, prep, conc_vars>>

\* client.upsert raises for another reason (the index is unreachable): the
\* request has either not been applied or been applied
UpsertBatchFails ==
    /\ ing.pc = "upsert"
    /\ Val(ing.coll) = ModelDim
    /\ \E applied \in BOOLEAN :
        ing' = [ing EXCEPT !.pc = "raised", !.error = "upsert",
                           !.index = IF applied
                                     THEN Upsert(ing.index,
                                                 BatchAt(ing.records, ing.pos,
                                                         ing.batch_size),
                                                 ing.include_text)
                                     ELSE ing.index]
    /\ UNCHANGED <<chunk_vars, retr_vars, ext_vars, prep, conc_vars>>

NextIngest ==
    \/ EnsureCollection
    \/ IngestChunkFile
    \/ EmbedBatch
    \/ EmbedBatchFails
    \/ UpsertBatch
    \/ UpsertBatchFails

SpecIngest == InitIngest /\ [][NextIngest]_vars

(***************************************************************************)
(* Failures and empty results of retrieval                                 *)
(***************************************************************************)
\* C12: a failed call aborts retrieve_news.  When the query embedding
\* fails, the index search and the cross-encoder are not invoked; when the
\* index search fails, the cross-encoder is not invoked; in both cases, and
\* when the cross-encoder fails, the call ends by raising and returns no
\* list, and a call that returned had no failure.
C12_FailureAborts ==
    caller = "retrieve_news" =>
        /\ error = "embed" => limit = None /\ hits = <<>> /\ ce_calls = 0
        /\ error = "search" => hits = <<>> /\ ce_calls = 0
        /\ error # "none" => rpc = "raised" /\ result = <<>>
        /\ rpc = "done" => error = "none"

C12_Witness ==
    /\ caller = "retrieve_news" /\ rpc = "raised" /\ error = "rerank"
    /\ Len(hits) >= 2 /\ top_k >= 1

\* C13: when the index search returns no hit, retrieve_news returns the
\* empty list, raises nothing and does not invoke the cross-encoder, with or
\* without a reranker.
C13_NoHitsNoRerank ==
    (/\ caller = "retrieve_news" /\ rpc \in {"done", "raised"}
     /\ error \notin {"embed", "search"} /\ hits = <<>>) =>
        /\ rpc = "done" /\ error = "none"
        /\ result = <<>>
        /\ ce_calls = 0

C13_Witness ==
    /\ caller = "retrieve_news" /\ rpc = "done" /\ hits = <<>>
    /\ use_reranker /\ top_k = 5 /\ limit = Some(20)

\* C14: rerank called with an empty candidate list returns the empty list
\* and does not invoke the cross-encoder, whatever top_k is.
C14_EmptyCandidates ==
    (caller = "rerank" /\ rpc \in {"done", "raised"} /\ contexts = <<>>) =>
        /\ rpc = "done" /\ error = "none"
        /\ result = <<>>
        /\ ce_calls = 0

C14_Witness ==
    /\ caller = "rerank" /\ rpc = "done" /\ contexts = <<>>
    /\ rerank_top_k = Some(2)

(***************************************************************************)
(* Ingestion and retrieval: one run of either program                      *)
(***************************************************************************)
InitRoles == InitIngest \/ InitRetrieve

NextRoles ==
    \/ NextIngest
    \/ (IngIdle /\ NextRetrieve)

SpecRoles == InitRoles /\ [][NextRoles]_vars

\* C17: every encode call of ingestion is in the passage role and every
\* encode call of a query path (retrieve_news, the query CLI) is in the
\* query role.
C17_RolePerSite ==
    \A e \in encoded :
        /\ e.site = "ingest" => e.prefix = "passage: "
        /\ e.site \in {"retrieve_news", "query_main"} => e.prefix = "query: "
        /\ e.site \in {"ingest", "retrieve_news", "query_main"}

C17_Witness ==
    /\ caller = "query_main" /\ rpc = "done" /\ result # <<>>
    /\ \E e \in encoded : e.site = "query_main"

\* C18: what a run has upserted is a prefix of what it has encoded, batch by
\* batch; when embed_passages fails on a batch, the index holds the points
\* of the batches completed before it and no point of the failed batch.
C18_BatchAtomic ==
    /\ Len(ing.upserted) <= Len(ing.embedded)
    /\ \A k \in 1..Len(ing.upserted) : ing.upserted[k] = ing.embedded[k]
    /\ ing.error = "embed" =>
        /\ ing.upserted = IdsOf(SubSeq(ing.records, 1, ing.pos))
        /\ ing.index = Upsert(ing.index0, SubSeq(ing.records, 1, ing.pos),
                              ing.include_text)

C18_Witness ==
    /\ ing.pc = "raised" /\ ing.error = "embed"
    /\ ing.pos >= 1 /\ ing.batch_size = 2
    /\ Len(ing.records) > ing.pos

\* C20: when the collection exists with a dimension other than vector_size,
\* the run fails at collection setup: no batch is encoded or upserted.
C20_MismatchFatalAtSetup ==
    (ing.coll0 # None /\ Val(ing.coll0) # ing.vector_size) =>
        /\ ing.pc \in {"setup", "raised"}
        /\ ing.embedded = <<>> /\ ing.upserted = <<>>
        /\ PassageEncode \notin encoded

(***************************************************************************)
(* Round trip of the chunker with overlap                                  *)
(***************************************************************************)
\* passage number i without its predicted overlap prefix: the first `ov`
\* characters when its predecessor is longer than `ov`
WithoutOverlap(ps, i, ov) ==
    IF i > 1 /\ Len(ps[i - 1]) > ov
    THEN Slice(ps[i], ov, Len(ps[i]))
    ELSE ps[i]

\* C15: with overlap > 0, the passages, each after the first stripped of
\* its predicted overlap prefix, concatenated in order, have exactly the
\* non-whitespace characters of the input, in input order.
C15_OverlapRoundTrip ==
    (cpc = "done" /\ overlap > 0) =>
        NonWs(Flatten([i \in 1..Len(passages) |->
                          WithoutOverlap(passages, i, overlap)])) = NonWs(text)

(***************************************************************************)
(* Data preparation (prepare_data_rag.py main and process_language; the    *)
(* same loop is prepare_rag_data of crawl_pipeline.py)                     *)
(***************************************************************************)
MaxArticles   == 2    \* most articles in the input file
MinContentLen == 200  \* the least stripped length of a chunked document
PrepMaxChars  == 900  \* chunk_text(content, max_chars=900, ...)
PrepOverlap   == 200  \* chunk_text(content, ..., overlap=200)

Rep(c, n) == [k \in 1..n |-> c]

\* documents around the threshold: one character short, one character short
\* inside whitespace, at the threshold, and long enough for two passages
DocShort  == Rep("a", MinContentLen - 1)
DocPadded == <<" ">> \o DocShort \o <<"\n">>
DocLeast  == Rep("a", MinContentLen)
DocLong   == Rep("a", 500) \o NLNL \o Rep(".", 500)

\* the articles: a missing key reads as "" (art.get(key, ""))
ArticleKinds ==
    { [content |-> DocLong,  content_en |-> DocPadded],
      [content |-> DocShort, content_en |-> DocLeast],
      [content |-> <<>>,     content_en |-> <<>>],
      [content |-> DocLeast, content_en |-> DocLong] }

\* art.get("content" if lang == "vi" else "content_en", "")
Content(art, lang) == IF lang = "vi" THEN art.content ELSE art.content_en

\* the threshold applied to the raw content
TooShort_Unstripped(content) == Len(content) < MinContentLen

\* if len(content.strip()) < 200
TooShort(content) == Len(Strip(content)) < MinContentLen

\* str(n) for n >= 0: the decimal digits of n, one character each
DigitChars == <<"0", "1", "2", "3", "4", "5", "6", "7", "8", "9">>
RECURSIVE Digits(_)
Digits(n) ==
    IF n < 10 THEN <<DigitChars[n + 1]>>
    ELSE Digits(n \div 10) \o <<DigitChars[(n % 10) + 1]>>

\* an id that leaves the chunk position out
ChunkId_NoChunkIndex(lang, i, j) == <<lang, "-vnexpress-">> \o Digits(i)

\* f"{lang}-vnexpress-{i}-{j}", as the pieces it is put together from
ChunkId(lang, i, j) == <<lang, "-vnexpress-">> \o Digits(i) \o <<"-">> \o Digits(j)

\* the records of article number i (from 0): one per chunk, j from 0
ChunkRecords(lang, i, content) ==
    LET chunks == chunk_text(content, PrepMaxChars, PrepOverlap)
    IN  [j1 \in 1..Len(chunks) |->
            [id |-> ChunkId(lang, i, j1 - 1), text |-> chunks[j1],
             article_index |-> i, chunk_index |-> j1 - 1, lang |-> lang]]

InitPrep ==
    /\ \E arts \in SeqsUpTo(ArticleKinds, MaxArticles) :
        prep = [pc |-> "vi", articles |-> arts,
                i |-> [l \in {"vi", "en"} |-> 0],
                out |-> [l \in {"vi", "en"} |-> <<>>],
                skipped |-> [l \in {"vi", "en"} |-> 0]]
    /\ RetrIdle
    /\ ChunkIdle
    /\ IngIdle
    /\ ConcIdle

\* one turn of `for i, art in enumerate(articles)`
ProcessArticle ==
    /\ prep.pc \in {"vi", "en"}
    /\ prep.i[prep.pc] < Len(prep.articles)
    /\ LET lang    == prep.pc
           i       == prep.i[lang]
           content == Content(prep.articles[i + 1], lang)
       IN  prep' = IF TooShort(content)
                   THEN [prep EXCEPT !.i[lang] = i + 1, !.skipped[lang] = @ + 1]
                   ELSE [prep EXCEPT !.i[lang] = i + 1,
                                     !.out[lang] = @ \o ChunkRecords(lang, i, content)]
    /\ UNCHANGED <<chunk_vars, retr_vars, ext_vars, ing, conc_vars>>

\* process_language returns: main goes on to "en", then ends
EndLanguage ==
    /\ prep.pc \in {"vi", "en"}
    /\ prep.i[prep.pc] = Len(prep.articles)
    /\ prep' = [prep EXCEPT !.pc = IF prep.pc = "vi" THEN "en" ELSE "done"]
    /\ UNCHANGED <<chunk_vars, retr_vars, ext_vars, ing, conc_vars>>

NextPrep == ProcessArticle \/ EndLanguage

SpecPrep == InitPrep /\ [][NextPrep]_vars

\* the records of a language's output that belong to article number i
RecordsOf(lang, i) == SelectSeq(prep.out[lang], LAMBDA r : r.article_index = i)

\* C16: of the articles a language has gone through, one whose stripped
\* content is shorter than 200 characters has no record in the output and
\* one at or above the threshold has the passages of chunk_text as its
\* records, in order; a short article counts as skipped and does not stop
\* the loop: the run ends with every article gone through in both languages.
C16_ShortDocumentSkipped ==
    /\ \A l \in {"vi", "en"} : \A i \in 0..(prep.i[l] - 1) :
        LET content == Content(prep.articles[i + 1], l)
            chunks  == chunk_text(content, 900, 200)
        IN  IF Len(Strip(content)) < 200
            THEN RecordsOf(l, i) = <<>>
            ELSE /\ chunks # <<>>
                 /\ [k \in 1..Len(RecordsOf(l, i)) |-> RecordsOf(l, i)[k].text] = chunks
    /\ \A l \in {"vi", "en"} :
        prep.skipped[l] = Cardinality({i \in 0..(prep.i[l] - 1) :
                              Len(Strip(Content(prep.articles[i + 1], l))) < 200})
    /\ prep.pc = "done" => \A l \in {"vi", "en"} : prep.i[l] = Len(prep.articles)

\* C16 witness: a run that ended, its first article skipped in English (by
\* the stripped length only) and its second one chunked in English
C16_Witness ==
    /\ prep.pc = "done" /\ Len(prep.articles) = 2
    /\ prep.articles[1].content_en = DocPadded
    /\ prep.skipped["en"] = 1
    /\ RecordsOf("en", 1) # <<>>

(***************************************************************************)
(* Two concurrent retrieve_news calls (retriever.py, reranker.py)          *)
(*                                                                         *)
(* The calls share the encoder, the client and the cross-encoder, which    *)
(* they only read; the index does not change.  Every other object of a     *)
(* call is a local of retrieve_news or rerank.  A step of a call is one    *)
(* statement that reads or writes the list of context dicts.               *)
(***************************************************************************)
Calls     == {1, 2}
Questions == {"q0", "q1", "q2"}

\* the unchanged index: the points it ranks for a question, best first
IndexPoints(q) ==
    CASE q = "q0" -> <<>>
      [] q = "q1" -> <<[score |-> 2, text |-> Some("p")],
                       [score |-> 1, text |-> Some("q")]>>
      [] q = "q2" -> <<[score |-> 2, text |-> Some("q")],
                       [score |-> 2, text |-> Some("p")],
                       [score |-> 1, text |-> None]>>

\* the cross-encoder: a function of the pair (query, text)
CrossScore(q) ==
    CASE q = "q0" -> [t \in CeTexts |-> 10]
      [] q = "q1" -> [t \in CeTexts |-> IF t = "q" THEN 20 ELSE 10]
      [] q = "q2" -> [t \in CeTexts |-> IF t = "" THEN 10 ELSE 20]

\* one list of context dicts for all calls (a module-level buffer)
ContextsSlot_Shared(p) == 1

\* `contexts` is a local of retrieve_news (line 113): a list per call
ContextsSlot(p) == p

Contexts(p) == heap[ContextsSlot(p)]

InitConcurrent ==
    /\ calls \in [Calls -> [pc : {"search"}, question : Questions, top_k : {1, 5},
                            use_reranker : BOOLEAN, hits : {<<>>}, scores : {<<>>},
                            k : {0}, result : {<<>>}]]
    /\ heap = [p \in Calls |-> <<>>]
    /\ RetrIdle
    /\ ChunkIdle
    /\ IngIdle
    /\ PrepIdle

\* lines 95-110: the question is embedded, the index searched
Search(p) ==
    /\ calls[p].pc = "search"
    /\ LET c  == calls[p]
           hs == PyPrefix(IndexPoints(c.question),
                          FetchK(c.use_reranker, c.top_k, None))
       IN  calls' = [calls EXCEPT ![p].hits = hs,
                                  ![p].pc = IF hs = <<>> THEN "done" ELSE "build"]
    /\ UNCHANGED <<heap, chunk_vars, retr_vars, ext_vars, prep, ing>>

\* lines 112-124: the contexts are built
Build(p) ==
    /\ calls[p].pc = "build"
    /\ heap' = [heap EXCEPT ![ContextsSlot(p)] = BuildContexts(calls[p].hits)]
    /\ calls' = [calls EXCEPT ![p].pc = IF calls[p].use_reranker THEN "predict"
                                        ELSE "return"]
    /\ UNCHANGED <<chunk_vars, retr_vars, ext_vars, prep, ing>>

\* reranker.py lines 53-61: the pairs are built from the candidates and scored
PredictPairs(p) ==
    /\ calls[p].pc = "predict"
    /\ calls' = [calls EXCEPT
                    ![p].scores = [i \in 1..Len(Contexts(p)) |->
                                      CrossScore(calls[p].question)[Contexts(p)[i].text]],
                    ![p].k = 0,
                    ![p].pc = "score"]
    /\ UNCHANGED <<heap, chunk_vars, retr_vars, ext_vars, prep, ing>>

\* reranker.py lines 64-69: one turn of `for ctx, score in zip(candidates, scores)`
ScoreOne(p) ==
    /\ calls[p].pc = "score"
    /\ LET i == calls[p].k + 1
       IN  IF i <= Min(Len(Contexts(p)), Len(calls[p].scores))
           THEN /\ heap' = [heap EXCEPT ![ContextsSlot(p)][i] =
                               ScoreContext(@, [t \in CeTexts |-> calls[p].scores[i]])]
                /\ calls' = [calls EXCEPT ![p].k = i]
           ELSE /\ calls' = [calls EXCEPT ![p].pc = "return"]
                /\ UNCHANGED heap
    /\ UNCHANGED <<chunk_vars, retr_vars, ext_vars, prep, ing>>

\* reranker.py lines 71-78 and retriever.py lines 133-140: sort, trim, return
Return(p) ==
    /\ calls[p].pc = "return"
    /\ LET c == calls[p]
           sorted == IF c.use_reranker
                     THEN PyPrefix(SortedByRerankScore(Contexts(p)),
                                   RerankK(TRUE, c.top_k, None, None))
                     ELSE Contexts(p)
       IN  calls' = [calls EXCEPT ![p].result = PyPrefix(sorted, c.top_k),
                                  ![p].pc = "done"]
    /\ UNCHANGED <<heap, chunk_vars, retr_vars, ext_vars, prep, ing>>

NextConcurrent ==
    \E p \in Calls : Search(p) \/ Build(p) \/ PredictPairs(p) \/ ScoreOne(p) \/ Return(p)

SpecConcurrent == InitConcurrent /\ [][NextConcurrent]_vars

\* what a call returns when it runs alone
Alone(c) ==
    RetrieveResult(PyPrefix(IndexPoints(c.question),
                            FetchK(c.use_reranker, c.top_k, None)),
                   c.use_reranker, c.top_k, None, None, CrossScore(c.question))

\* C19: in every interleaving of two retrieve_news calls against the same
\* unchanged index, a call that has returned has returned exactly the
\* candidates, in the order and with the scores, it returns when run alone.
C19_NoCrossQueryState ==
    \A p \in Calls : calls[p].pc = "done" => calls[p].result = Alone(calls[p])

\* C19 witness: both calls reranked different questions and returned, the
\* second call having built its contexts while the first was scoring
C19_Witness ==
    /\ \A p \in Calls : calls[p].pc = "done" /\ calls[p].use_reranker
    /\ calls[1].question = "q1" /\ calls[2].question = "q2"
    /\ Len(calls[1].result) = 2 /\ Len(calls[2].result) = 3
    /\ calls[1].result[1].text = "q"

(***************************************************************************)
(* Ids of the chunk records                                                *)
(***************************************************************************)
AllRecords == prep.out["vi"] \o prep.out["en"]

\* C21: the records written for both languages have pairwise distinct ids;
\* the id of a record is made of its language, the position of its article
\* in the article list (skipped articles counted) and the position of its
\* chunk among the chunks of that article.
C21_IdsUnique ==
    /\ \A a, b \in 1..Len(AllRecords) :
        a # b => AllRecords[a].id # AllRecords[b].id
    /\ \A l \in {"vi", "en"} : \A n \in 1..Len(prep.out[l]) :
        LET r == prep.out[l][n]
        IN  /\ r.lang = l
            /\ r.article_index \in 0..(prep.i[l] - 1)
            /\ r.chunk_index =
                 Cardinality({m \in 1..(n - 1) :
                                 prep.out[l][m].article_index = r.article_index})
            /\ r.id = <<l, "-vnexpress-">> \o Digits(r.article_index)
                         \o <<"-">> \o Digits(r.chunk_index)

\* C21 witness: the first article was skipped in Vietnamese, the second one
\* gave two records, which carry the article position 1
C21_Witness ==
    /\ prep.pc = "done" /\ Len(prep.articles) = 2
    /\ prep.skipped["vi"] = 1
    /\ Len(prep.out["vi"]) = 2
    /\ prep.out["vi"][1].id = <<"vi", "-vnexpress-", "1", "-", "0">>
    /\ prep.out["vi"][2].id = <<"vi", "-vnexpress-", "1", "-", "1">>
    /\ prep.out["en"] # <<>>

Scored == {j \in 1..Len(contexts) : contexts[j].rerank_score # None}

\* C23: when rerank_top_k is given, at most rerank_top_k of the fetched
\* candidates are scored by the cross-encoder; when it is None all of them
\* are.
C23_RerankTopKScored ==
    (rpc = "done" /\ caller = "retrieve_news" /\ use_reranker /\ hits # <<>>) =>
        /\ rerank_top_k = None => Cardinality(Scored) = Len(hits)
        /\ (rerank_top_k # None /\ Val(rerank_top_k) >= 0) =>
              Cardinality(Scored) <= Val(rerank_top_k)

(***************************************************************************)
(* Where chunk_text closes the buffer                                      *)
(***************************************************************************)
\* the turns of `for sp in subs` (lines 47-57) that took the else branch
\* with a non-empty buffer, from unit number k on: the unit and the buffer
\* that was closed before it
RECURSIVE Closings(_, _, _, _, _)
Closings(units, k, current, mc, ov) ==
    IF k > Len(units) THEN <<>>
    ELSE LET sp == units[k]
         IN  IF Len(current) + Len(sp) + 2 < mc
             THEN Closings(units, k + 1, current \o sp \o NLNL, mc, ov)
             ELSE (IF current # <<>> THEN <<[unit |-> sp, buffer |-> current]>>
                   ELSE <<>>)
                  \o Closings(units, k + 1, NewBuffer(current, sp, ov), mc, ov)

ClosingsOf(t, mc, ov) ==
    IF t = <<>> THEN <<>> ELSE Closings(Units(Paragraphs(t), mc), 1, <<>>, mc, ov)

\* C24: the buffer is closed before a unit only if the passage made of the
\* buffer, the blank-line separator and the unit would be longer than
\* max_chars.
C24_ClosedOnlyWhenTooLong ==
    cpc = "done" =>
        \A n \in 1..Len(ClosingsOf(text, max_chars, overlap)) :
            LET c == ClosingsOf(text, max_chars, overlap)[n]
            IN  Len(Strip(c.buffer \o c.unit)) > max_chars

(***************************************************************************)
(* Sentences in split_long_paragraph                                       *)
(***************************************************************************)
\* s occurs in sub as a contiguous run of characters
InSub(s, sub) == \E o \in 0..(Len(sub) - Len(s)) : SubSeq(sub, o + 1, o + Len(s)) = s

LongParagraphs == {k \in 1..Len(Paragraphs(text)) : Len(Paragraphs(text)[k]) > max_chars}

\* C25: for every paragraph chunk_text hands to split_long_paragraph, every
\* sub-paragraph returned has length <= max_chars, the sub-paragraphs hold
\* the paragraph's non-whitespace characters in order, and every sentence
\* of length <= max_chars occurs whole and contiguous in one sub-paragraph.
C25_SentencesWhole ==
    cpc = "done" =>
        \A k \in LongParagraphs :
            LET para  == Paragraphs(text)[k]
                subs  == split_long_paragraph(para, max_chars)
                sents == SplitSentences(Strip(para))
            IN  /\ \A n \in 1..Len(subs) : Len(subs[n]) <= max_chars
                /\ NonWs(Flatten(subs)) = NonWs(para)
                /\ \A m \in 1..Len(sents) :
                      LET sent == Strip(sents[m])
                      IN  (sent # <<>> /\ Len(sent) <= max_chars) =>
                              \E n \in 1..Len(subs) : InSub(sent, subs[n])

\* C25 witness: a paragraph of two sentences, one longer than max_chars
\* (cut at fixed offsets) and one not (kept whole)
C25_Witness ==
    /\ cpc = "done" /\ max_chars = 2
    /\ text = <<"a", ".", " ", "a", "a", "a">>
    /\ LongParagraphs = {1}
    /\ split_long_paragraph(text, max_chars) = << <<"a", ".">>, <<"a", "a">>, <<"a">> >>

(***************************************************************************)
(* Passages longer than max_chars                                          *)
(***************************************************************************)
\* passage number i (from 2 on) comes from the buffer that closing number
\* i - 1 left behind; that buffer starts with an overlap when lines 53-55 ran
StartedByOverlap(i) ==
    /\ i >= 2 /\ overlap > 0
    /\ Len(ClosingsOf(text, max_chars, overlap)[i - 1].buffer) > overlap

\* C26: every passage has length <= max_chars + overlap + 2, and a passage
\* longer than max_chars comes from a buffer that was started by the
\* overlap injection.
C26_OvershootBounded ==
    cpc = "done" =>
        /\ Len(passages) > 0 =>
              Len(passages) = Len(ClosingsOf(text, max_chars, overlap)) + 1
        /\ \A i \in 1..Len(passages) :
              /\ Len(passages[i]) <= max_chars + overlap + 2
              /\ Len(passages[i]) > max_chars => StartedByOverlap(i)

\* C26 witness: a second passage longer than max_chars by more than overlap
C26_Witness ==
    /\ cpc = "done" /\ overlap = 3 /\ Len(passages) = 2
    /\ Len(passages[2]) > max_chars + overlap
    /\ StartedByOverlap(2)

(***************************************************************************)
(* Empty passages                                                          *)
(***************************************************************************)
\* C27: every passage chunk_text returns has at least one non-whitespace
\* character.
C27_NoEmptyPassage ==
    cpc = "done" => \A i \in 1..Len(passages) : NonWs(passages[i]) # <<>>

(***************************************************************************)
(* Ingestion: order, first failure, a second run                           *)
(***************************************************************************)
\* C30: the batches are encoded and upserted in file order; when the
\* embedding or the upsert of a batch fails the run ends by raising, returns
\* no count and takes no further step; the index then holds every record of
\* the batches before it as upserted, and no record behind the failed batch
\* has been encoded or upserted.
C30_StopsAtFirstFailure ==
    LET done   == SubSeq(ing.records, 1, ing.pos)
        behind == {ing.records[j].id :
                      j \in (ing.pos + ing.batch_size + 1)..Len(ing.records)}
    IN  /\ ing.upserted = IdsOf(done)
        /\ ing.embedded = IdsOf(SubSeq(ing.records, 1, Len(ing.embedded)))
        /\ Len(ing.embedded) \in {ing.pos, Min(ing.pos + ing.batch_size, Len(ing.records))}
        /\ ing.error # "none" =>
              /\ ing.pc = "raised" /\ ing.returned = None
              /\ ~ENABLED NextIngest
              /\ \A k \in 1..Len(done) :
                    [id |-> done[k].id,
                     text |-> PayloadText(done[k].text, ing.include_text)] \in ing.index
              /\ \A pt \in ing.index : pt.id \in behind => pt \in ing.index0
              /\ \A k \in 1..Len(ing.embedded) : ing.embedded[k] \notin behind
        /\ ing.pc = "done" => ing.error = "none"

\* C30 witness: the upsert of the second batch failed after the first batch
\* was upserted, with a third batch behind it
C30_Witness ==
    /\ ing.pc = "raised" /\ ing.error = "upsert"
    /\ ing.batch_size = 1 /\ ing.pos = 1 /\ Len(ing.records) = 3
    /\ Val(ing.coll) = ModelDim
    /\ Len(ing.embedded) = 2

\* the same chunk file ingested again with the same settings
IngestAgain ==
    /\ ing.pc = "done" /\ ing.run = 1
    /\ ing' = [ing EXCEPT !.run = 2,
                          !.first = Some([index |-> ing.index, returned |-> ing.returned]),
                          !.pc = "setup",
                          !.coll0 = ing.coll, !.index0 = ing.index,
                          !.pos = 0, !.embedded = <<>>, !.upserted = <<>>,
                          !.returned = None]
    /\ UNCHANGED <<chunk_vars, retr_vars, ext_vars, prep, conc_vars>>

NextIngestTwice == NextIngest \/ IngestAgain

SpecIngestTwice == InitIngest /\ [][NextIngestTwice]_vars

\* C29: after the second run of the same chunk file the index has exactly
\* the points and payloads it had after the first run, and both runs
\* returned the record count.
C29_IngestIdempotent ==
    (ing.run = 2 /\ ing.pc = "done") =>
        /\ ing.index = Val(ing.first).index
        /\ Val(ing.first).returned = Some(Len(ing.records))
        /\ ing.returned = Some(Len(ing.records))

\* C29 witness: three records with their text ingested twice in batches of
\* two, into a collection that held an older point of the first record
C29_Witness ==
    /\ ing.run = 2 /\ ing.pc = "done"
    /\ Len(ing.records) = 3 /\ ing.batch_size = 2 /\ ing.include_text
    /\ Cardinality(ing.index) = 3
    /\ Val(ing.first).returned = Some(3)

(***************************************************************************)
(* Ingestion followed by retrieval from the ingested collection            *)
(***************************************************************************)
\* the score the index reports at a rank: best first
IndexScore(rank) == IF rank = 1 THEN 2 ELSE 1

\* what client.query_points can report from the collection: up to n of its
\* points, no point twice, each with its payload
IndexHitSeqs(index, n) ==
    {[i \in 1..Len(pts) |-> [score |-> IndexScore(i), text |-> pts[i].text,
                             id |-> pts[i].id]] :
        pts \in {q \in SeqsUpTo(index, Min(n, MaxHits)) :
                    \A a, b \in 1..Len(q) : a # b => q[a].id # q[b].id}}

\* client.query_points(..., limit=fetch_k) on the ingested collection
QueryIndex ==
    /\ rpc = "search"
    /\ limit' = Some(FetchK(use_reranker, top_k, initial_candidates))
    /\ hits' \in IndexHitSeqs(ing.index, FetchK(use_reranker, top_k, initial_candidates))
    /\ rpc' = "hits"
    /\ UNCHANGED <<caller, top_k, use_reranker, rerank_top_k, initial_candidates,
                   contexts, ce, ce_calls, result, chunk_vars, ext_vars, other_vars>>

\* a new collection of the encoder's dimension
InitRoundTrip == InitIngest /\ ing.coll0 = None /\ ing.vector_size = ModelDim

\* the run of ingest.py, then one retrieve_news call with the default
\* top_k on the collection it filled
NextRoundTrip ==
    \/ NextIngest
    \/ /\ ing.pc = "done"
       /\ \/ (RetrieveNewsCall /\ top_k' = 5 /\ rerank_top_k' = None
                               /\ initial_candidates' = None)
          \/ EmbedQuery
          \/ QueryIndex
          \/ RetrieveNewsReturn

SpecRoundTrip == InitRoundTrip /\ [][NextRoundTrip]_vars

\* C28: a candidate retrieve_news returns for a hit on an ingested record
\* carries the text of that record, and the cross-encoder has scored that
\* text, whether or not the text was included in the payload.
C28_TextRoundTrip ==
    (rpc = "done" /\ caller = "retrieve_news" /\ ing.pc = "done") =>
        \A i \in 1..Len(result) : \A k \in 1..Len(ing.records) :
            ing.records[k].id = hits[result[i].hit].id =>
                /\ result[i].text = ing.records[k].text
                /\ use_reranker =>
                      result[i].rerank_score = Some(ce[ing.records[k].text])

====
